---- MODULE Spec2Model ----
(***************************************************************************)
(* Model of the DynamoDB export pipeline (dynamo_query.py) and of the CSV  *)
(* column filter (process_column_filter.py).                               *)
(*                                                                         *)
(* Python values are records tagged with their Python type in field ty.    *)
(* A dict is a function whose DOMAIN is the set of its keys.  A raised     *)
(* exception is the value Raise(name).                                     *)
(***************************************************************************)
EXTENDS Integers, Sequences, FiniteSets, TLC

VARIABLES
    pc,          \* position of dynamo_query.main
    args,        \* argparse.Namespace of dynamo_query.main
    start_ts,    \* main: start_ts
    end_ts,      \* main: end_ts
    scan_kwargs, \* scan_table: keyword arguments of table.scan
    last_key,    \* scan_table: last_key
    items,       \* scan_table: items, then main: items (sorted in place)
    requests,    \* the page requests the store has received, in order
    responses,   \* the page responses the store has returned, in order
    outfile,     \* the file <table>.csv
    stdout,      \* what was written to sys.stdout
    error,       \* the exception that ended main, or "none"
    fpc,         \* position of process_column_filter.main
    fargs,       \* argparse.Namespace of process_column_filter.main
    columns,     \* process_column_filter.main: columns
    infile,      \* the input CSV file of the column filter
    foutfile,    \* the output CSV file of the column filter
    ferror,      \* the exception filter_csv raised, or "none"
    warned       \* the column names of the warning written to stderr

vars == <<pc, args, start_ts, end_ts, scan_kwargs, last_key, items, requests,
          responses, outfile, stdout, error, fpc, fargs, columns, infile,
          foutfile, ferror, warned>>

exportVars == <<pc, args, start_ts, end_ts, scan_kwargs, last_key, items,
                requests, responses, outfile, stdout, error>>

filterVars == <<fpc, fargs, columns, infile, foutfile, ferror, warned>>

----------------------------------------------------------------------------
(* Bounds of the model. *)

\* the most page responses the store returns in one scan
MaxPages == 3
\* the most rows the store returns in one scan
MaxItems == 2
\* the most rows of a RowSet that is sorted and written
MaxSortItems == 4
\* the most comma-separated names in all the tokens of --columns
MaxWanted == 3
\* the most data rows of the column filter's input CSV
MaxCsvRows == 2

----------------------------------------------------------------------------
(* Python values. *)

None == [ty |-> "NoneType"]
PyBool(b) == [ty |-> "bool", b |-> b]
\* an int
PyInt(n) == [ty |-> "int", units |-> n]
\* a float with one decimal digit: units + tenths/10
PyFloat(u, t) == [ty |-> "float", units |-> u, tenths |-> t]
\* a decimal.Decimal with one decimal digit: units + tenths/10
Dec(u, t) == [ty |-> "Decimal", units |-> u, tenths |-> t]
PyStr(s) == [ty |-> "str", s |-> s]
PyList(elems) == [ty |-> "list", elems |-> elems]
\* a dict held as a value: its <<key, value>> pairs in insertion order
PyDict(pairs) == [ty |-> "dict", pairs |-> pairs]
Raise(exc) == [ty |-> "raise", exc |-> exc]

IsRaise(v) == v.ty = "raise"

\* Python truth value of the values the conditions of the code test.
Truthy(v) ==
    CASE v.ty = "NoneType" -> FALSE
      [] v.ty = "bool" -> v.b
      [] v.ty = "int" -> v.units # 0
      [] v.ty = "str" -> v.s # ""
      [] v.ty = "list" -> v.elems # <<>>
      [] v.ty = "dict" -> v.pairs # <<>>
      [] OTHER -> TRUE

\* dict.get(key, default)
DictGet(d, k, default) == IF k \in DOMAIN d THEN d[k] ELSE default

Reverse(s) == [i \in 1..Len(s) |-> s[Len(s) + 1 - i]]

RECURSIVE Flatten(_)
Flatten(ss) == IF ss = <<>> THEN <<>> ELSE Head(ss) \o Flatten(Tail(ss))

----------------------------------------------------------------------------
(* Strings: the strings of the model in code-point (lexicographic) order,  *)
(* the order Python's str.__lt__ and sorted() use.                         *)

StrOrder == <<"", "2023-01-01", "2023-01-02", "5", "['x']",
              "[Decimal('1')]", "a",
              "abc", "abd", "amount", "b", "c", "created_date", "id", "tags">>

StrIndex(s) == CHOOSE i \in 1..Len(StrOrder) : StrOrder[i] = s

StrLt(a, b) == StrIndex(a) < StrIndex(b)

\* datetime.fromisoformat(s), made UTC when naive, .timestamp(): the epoch
\* seconds of the date strings of the model, ValueError for every other string.
IsoStrings == {"1970-01-01", "1970-01-02", "2023-01-01", "2023-01-02"}

EpochSeconds(s) ==
    CASE s = "1970-01-01" -> 0
      [] s = "1970-01-02" -> 86400
      [] s = "2023-01-01" -> 1672531200
      [] s = "2023-01-02" -> 1672617600

fromisoformat_timestamp(s) ==
    IF s \in IsoStrings THEN PyFloat(EpochSeconds(s), 0) ELSE Raise("ValueError")

\* float(s) of a string: the decimal literals of the model, ValueError otherwise.
float_of_str(s) ==
    IF s = "5" THEN PyFloat(5, 0) ELSE Raise("ValueError")

\* str(val) of a value that is neither None, a number nor a str
str_of(val) ==
    IF val = PyList(<<PyStr("x")>>) THEN "['x']" ELSE "[Decimal('1')]"

----------------------------------------------------------------------------
(* dynamo_query.py: utilities. *)

\* iso_to_timestamp_ms(date_str): epoch milliseconds as an int, or ValueError
iso_to_timestamp_ms(date_str) ==
    LET ts == fromisoformat_timestamp(date_str)
    IN IF IsRaise(ts) THEN ts ELSE PyInt(ts.units * 1000 + ts.tenths * 100)

\* int(val) if val % 1 == 0 else float(val), of a Decimal
decimal_to_number(val) ==
    IF val.tenths = 0 THEN PyInt(val.units) ELSE PyFloat(val.units, val.tenths)

\* The numeric value <<units, tenths>> of an int or a float: Python compares
\* the two types by value.
NumValue(v) == IF v.ty = "int" THEN <<v.units, 0>> ELSE <<v.units, v.tenths>>

\* value_as_sort_key(val): the tuple <<rank, value>>
value_as_sort_key(val) ==
    IF val = None THEN <<2, None>>
    ELSE LET v == IF val.ty = "Decimal" THEN decimal_to_number(val) ELSE val
         IN IF v.ty \in {"int", "float"} THEN <<0, NumValue(v)>>
            ELSE IF v.ty = "str"
                 THEN IF ~IsRaise(fromisoformat_timestamp(v.s))
                         THEN <<0, NumValue(fromisoformat_timestamp(v.s))>>
                      ELSE IF ~IsRaise(float_of_str(v.s))
                         THEN <<0, NumValue(float_of_str(v.s))>>
                      ELSE <<1, v.s>>
            ELSE <<1, str_of(v)>>

\* Python's < on two sort-key tuples: the first differing component decides.
KeyLt(a, b) ==
    IF a[1] # b[1] THEN a[1] < b[1]
    ELSE IF a[2] = b[2] THEN FALSE
    ELSE IF a[1] = 0
         THEN \/ a[2][1] < b[2][1]
              \/ a[2][1] = b[2][1] /\ a[2][2] < b[2][2]
    ELSE StrLt(a[2], b[2])

\* json.dumps(val, ensure_ascii=False): the text, or TypeError for a value the
\* encoder does not know (Decimal)
RECURSIVE json_dumps(_)
RECURSIVE json_join(_)
RECURSIVE json_items(_)
\* the elements of a list, separated by ", "
json_join(elems) ==
    IF elems = <<>> THEN PyStr("")
    ELSE LET h == json_dumps(Head(elems))
             t == json_join(Tail(elems))
         IN IF IsRaise(h) THEN h
            ELSE IF IsRaise(t) THEN t
            ELSE IF Tail(elems) = <<>> THEN h
            ELSE PyStr(h.s \o ", " \o t.s)

\* the "key": value items of a dict, separated by ", "
json_items(pairs) ==
    IF pairs = <<>> THEN PyStr("")
    ELSE LET h == json_dumps(Head(pairs)[2])
             t == json_items(Tail(pairs))
         IN IF IsRaise(h) THEN h
            ELSE IF IsRaise(t) THEN t
            ELSE IF Tail(pairs) = <<>>
                 THEN PyStr("\"" \o Head(pairs)[1] \o "\": " \o h.s)
            ELSE PyStr("\"" \o Head(pairs)[1] \o "\": " \o h.s \o ", " \o t.s)

json_dumps(val) ==
    CASE val.ty = "NoneType" -> PyStr("null")
      [] val.ty = "str" -> PyStr("\"" \o val.s \o "\"")
      [] val.ty = "list" ->
            LET body == json_join(val.elems)
            IN IF IsRaise(body) THEN body ELSE PyStr("[" \o body.s \o "]")
      [] val.ty = "dict" ->
            LET body == json_items(val.pairs)
            IN IF IsRaise(body) THEN body ELSE PyStr("{" \o body.s \o "}")
      [] OTHER -> Raise("TypeError")

to_scalar(val) ==
    IF val.ty = "Decimal" THEN decimal_to_number(val)
    ELSE IF val.ty \in {"dict", "list"} THEN json_dumps(val)
    ELSE val

\* --sort-by, at its default
sort_by == "created_date"

\* A row is a dict from attribute names to values as the boto3 resource
\* returns them: a Number is a Decimal, a List or Map holds values of the
\* same kinds.

Row1 == ("id" :> Dec(1, 0)) @@ ("created_date" :> PyStr("2023-01-02"))
Row2 == ("id" :> Dec(2, 0)) @@ ("created_date" :> PyStr("2023-01-01"))
Row3 == ("id" :> Dec(3, 0))
Row4 == ("id" :> Dec(4, 0)) @@ ("created_date" :> Dec(1672617600, 0))
           @@ ("amount" :> Dec(10, 5))
Row5 == ("id" :> Dec(5, 0)) @@ ("created_date" :> PyStr("abc"))
           @@ ("tags" :> PyList(<<PyStr("x"), None>>)) @@ ("amount" :> None)
Row6 == ("id" :> Dec(6, 0)) @@ ("created_date" :> PyList(<<PyStr("x")>>))
           @@ ("tags" :> PyList(<<PyStr("x"), PyList(<<Dec(1, 0)>>)>>))

Row7 == ("id" :> Dec(7, 0)) @@ ("created_date" :> PyStr("5"))
Row8 == ("id" :> Dec(8, 0)) @@ ("created_date" :> PyStr("abd"))
           @@ ("tags" :> PyDict(<<<<"a", PyStr("x")>>, <<"b", PyList(<<>>)>>>>))

\* the rows the table of the store may hold
TableRows == {Row1, Row2, Row3, Row4, Row5, Row6}

\* the rows of the RowSets that are sorted and written
RowPool == TableRows \cup {Row7, Row8}

\* the sequences of at most n elements of S
SeqUpTo(S, n) == UNION {[1..k -> S] : k \in 0..n}

\* key=lambda it: value_as_sort_key(it.get(args.sort_by))
SortKeyOf(it) == value_as_sort_key(DictGet(it, sort_by, None))

\* A stable ascending sort by SortKeyOf: each element goes before the first
\* element whose key is greater than its own.
RECURSIVE InsertSorted(_, _)
InsertSorted(s, x) ==
    IF s = <<>> THEN <<x>>
    ELSE IF KeyLt(SortKeyOf(x), SortKeyOf(Head(s))) THEN <<x>> \o s
    ELSE <<Head(s)>> \o InsertSorted(Tail(s), x)

RECURSIVE StableSort(_)
StableSort(s) ==
    IF s = <<>> THEN <<>>
    ELSE InsertSorted(StableSort(SubSeq(s, 1, Len(s) - 1)), s[Len(s)])

\* list_sort with the direction flag dropped: always ascending
list_sort_ascending_only(its, reverse) == StableSort(its)

\* list_sort with the missing rows kept last under reverse: only the rows
\* that have a key are put in descending order
list_sort_missing_last(its, reverse) ==
    LET HasKey(it) == SortKeyOf(it)[1] # 2
        NoKey(it) == SortKeyOf(it)[1] = 2
    IN IF reverse
       THEN Reverse(StableSort(Reverse(SelectSeq(its, HasKey))))
              \o SelectSeq(its, NoKey)
       ELSE StableSort(its)

\* list_sort with reverse done by reversing the ascending result, which puts
\* rows of equal key in the reverse of their original order
list_sort_reversed_after(its, reverse) ==
    IF reverse THEN Reverse(StableSort(its)) ELSE StableSort(its)

\* items.sort(key=..., reverse=reverse): list.sort is stable; with reverse it
\* sorts as if each comparison were reversed and stays stable (CPython
\* reverses the list, sorts it, and reverses the result).
list_sort(its, reverse) ==
    IF reverse THEN Reverse(StableSort(Reverse(its))) ELSE StableSort(its)

\* the elements of the set of strings S in ascending order: sorted(S)
RECURSIVE sorted_strs(_)
sorted_strs(S) ==
    IF S = {} THEN <<>>
    ELSE LET m == CHOOSE x \in S : \A y \in S : ~StrLt(y, x)
         IN <<m>> \o sorted_strs(S \ {m})

collect_headers(its) ==
    sorted_strs(UNION {DOMAIN its[i] : i \in 1..Len(its)})

\* csv.writer writes None as the empty field
CsvField(v) == IF v = None THEN PyStr("") ELSE v

\* row = {h: to_scalar(it.get(h, "")) for h in headers}: the cells in header
\* order, or the exception to_scalar raised
CsvRow(it, headers) ==
    LET cells == [j \in 1..Len(headers) |->
                    to_scalar(DictGet(it, headers[j], PyStr("")))]
    IN IF \E j \in 1..Len(headers) : IsRaise(cells[j])
       THEN cells[CHOOSE j \in 1..Len(headers) :
                    /\ IsRaise(cells[j])
                    /\ \A k \in 1..(j - 1) : ~IsRaise(cells[k])]
       ELSE [ty |-> "row", cells |-> [j \in 1..Len(headers) |-> CsvField(cells[j])]]

\* write_csv(items, headers, delimiter, fp): what fp holds when write_csv
\* returns or raises: the header, the rows written, and the exception if any
RECURSIVE WriteRows(_, _, _)
WriteRows(its, headers, done) ==
    IF its = <<>> THEN [rows |-> done, exc |-> "none"]
    ELSE LET r == CsvRow(Head(its), headers)
         IN IF IsRaise(r) THEN [rows |-> done, exc |-> r.exc]
            ELSE WriteRows(Tail(its), headers, Append(done, r.cells))

write_csv(its, headers) ==
    LET w == WriteRows(its, headers, <<>>)
    IN [header |-> headers, rows |-> w.rows, exc |-> w.exc]

----------------------------------------------------------------------------
(* dynamo_query.py: the store, scan_table and main. *)

\* the values of --start-date and --end-date: absent, two dates, and a string
\* that is no ISO date
DateArgs == {None, PyStr("1970-01-01"), PyStr("1970-01-02"), PyStr("01/02/1970")}

EmptyDict == [k \in {} |-> None]

\* the continuation token of the n-th page response
Token(n) == PyDict(<<<<"id", Dec(n, 0)>>>>)

NoFile == [state |-> "absent"]

ExportInit ==
    /\ pc = "main"
    /\ args \in [start_date : DateArgs, end_date : DateArgs,
                 order : {"asc", "desc"}, stdout : BOOLEAN]
    /\ start_ts = None
    /\ end_ts = None
    /\ scan_kwargs = EmptyDict
    /\ last_key = None
    /\ items = <<>>
    /\ requests = <<>>
    /\ responses = <<>>
    /\ outfile = NoFile
    /\ stdout = <<>>
    /\ error = "none"

\* main, lines 164-165: the two date bounds; an unparseable one raises
ParseDates ==
    /\ pc = "main"
    /\ LET s == IF Truthy(args.start_date)
                THEN iso_to_timestamp_ms(args.start_date.s) ELSE None
           e == IF Truthy(args.end_date)
                THEN iso_to_timestamp_ms(args.end_date.s) ELSE None
       IN IF IsRaise(s)
          THEN /\ pc' = "failed"
               /\ error' = s.exc
               /\ UNCHANGED <<start_ts, end_ts>>
          ELSE IF IsRaise(e)
          THEN /\ pc' = "failed"
               /\ error' = e.exc
               /\ start_ts' = s
               /\ UNCHANGED end_ts
          ELSE /\ pc' = "scan_table"
               /\ start_ts' = s
               /\ end_ts' = e
               /\ UNCHANGED error
    /\ UNCHANGED <<args, scan_kwargs, last_key, items, requests, responses,
                   outfile, stdout,
                   filterVars>>

\* scan_table, lines 120-127: the keyword arguments of every page request
FilterKwargs(date_attr, s, e) ==
    IF Truthy(s) /\ Truthy(e)
    THEN ("ConsistentRead" :> PyBool(FALSE))
           @@ ("FilterExpression" :>
                 [op |-> "between", attr |-> date_attr, lo |-> s, hi |-> e])
    ELSE IF Truthy(s)
    THEN ("ConsistentRead" :> PyBool(FALSE))
           @@ ("FilterExpression" :> [op |-> "gte", attr |-> date_attr, lo |-> s])
    ELSE IF Truthy(e)
    THEN ("ConsistentRead" :> PyBool(FALSE))
           @@ ("FilterExpression" :> [op |-> "lte", attr |-> date_attr, hi |-> e])
    ELSE ("ConsistentRead" :> PyBool(FALSE))

date_attr == "created_at"

\* scan_table, lines 119-130: up to the loop
ScanTableBegin ==
    /\ pc = "scan_table"
    /\ scan_kwargs' = FilterKwargs(date_attr, start_ts, end_ts)
    /\ items' = <<>>
    /\ last_key' = None
    /\ pc' = "request"
    /\ UNCHANGED <<args, start_ts, end_ts, requests, responses, outfile,
                   stdout, error,
                   filterVars>>

\* NextKwargs that sets the continuation token only once and then keeps
\* sending the first token
NextKwargsStale(kwargs, key) ==
    IF Truthy(key) /\ "ExclusiveStartKey" \notin DOMAIN kwargs
    THEN ("ExclusiveStartKey" :> key) @@ kwargs
    ELSE kwargs

\* scan_table, lines 132-133: the keyword arguments of the next request
NextKwargs(kwargs, key) ==
    IF Truthy(key) THEN ("ExclusiveStartKey" :> key) @@ kwargs ELSE kwargs

\* scan_table, lines 132-134: the page request is sent
SendRequest ==
    /\ pc = "request"
    /\ scan_kwargs' = NextKwargs(scan_kwargs, last_key)
    /\ requests' = Append(requests, scan_kwargs')
    /\ pc' = "await"
    /\ UNCHANGED <<args, start_ts, end_ts, last_key, items, responses,
                   outfile, stdout, error,
                   filterVars>>

\* The page responses the store may return to the request in flight: any rows,
\* and a fresh continuation token unless this is the last page.
StoreResponses ==
    LET n == Len(responses) + 1
        pages == {rows \in SeqUpTo(TableRows, MaxItems) :
                    Len(items) + Len(rows) <= MaxItems}
    IN {("Items" :> rows) : rows \in pages}
         \cup {("Items" :> rows) @@ ("LastEvaluatedKey" :> Token(n)) :
                 rows \in IF n < MaxPages THEN pages ELSE {}}

\* ExtendItems that keeps only the rows of the last page
ExtendItemsReplace(its, resp) == DictGet(resp, "Items", <<>>)

\* scan_table, lines 135-136: items after the response
ExtendItems(its, resp) == its \o DictGet(resp, "Items", <<>>)

\* scan_table, lines 134-139: the response arrives; the loop goes on or
\* scan_table returns to main
ReceiveResponse ==
    /\ pc = "await"
    /\ \E resp \in StoreResponses :
         /\ responses' = Append(responses, resp)
         /\ items' = ExtendItems(items, resp)
         /\ last_key' = DictGet(resp, "LastEvaluatedKey", None)
         /\ pc' = IF ~Truthy(last_key') THEN "sort" ELSE "request"
    /\ UNCHANGED <<args, start_ts, end_ts, scan_kwargs, requests, outfile,
                   stdout, error,
                   filterVars>>

\* table.scan raises: main catches ResourceNotFoundException and exits with
\* status 1 (lines 171-173); any other error propagates out of main
ScanFails ==
    /\ pc = "await"
    /\ \E exc \in {"ResourceNotFoundException", "ClientError"} :
         error' = exc
    /\ pc' = "failed"
    /\ UNCHANGED <<args, start_ts, end_ts, scan_kwargs, last_key, items,
                   requests, responses, outfile, stdout,
                   filterVars>>

\* main, lines 176-178
SortItems ==
    /\ pc = "sort"
    /\ items' = list_sort(items, args.order = "desc")
    /\ pc' = "write"
    /\ UNCHANGED <<args, start_ts, end_ts, scan_kwargs, last_key, requests,
                   responses, outfile, stdout, error,
                   filterVars>>

\* main, lines 181-188: the CSV goes to stdout, or to the file <table>.csv,
\* which open(outfile, "w") creates or truncates before write_csv runs
WriteOutput ==
    /\ pc = "write"
    /\ LET w == write_csv(items, collect_headers(items))
           fp == [header |-> w.header, rows |-> w.rows]
       IN /\ IF args.stdout
             THEN /\ stdout' = <<fp>>
                  /\ UNCHANGED outfile
             ELSE /\ outfile' = [state |-> "closed", header |-> w.header,
                                 rows |-> w.rows]
                  /\ UNCHANGED stdout
          /\ error' = w.exc
          /\ pc' = IF w.exc = "none" THEN "done" ELSE "failed"
    /\ UNCHANGED <<args, start_ts, end_ts, scan_kwargs, last_key, items,
                   requests, responses,
                   filterVars>>

Next ==
    \/ ParseDates
    \/ ScanTableBegin
    \/ SendRequest
    \/ ReceiveResponse
    \/ ScanFails
    \/ SortItems
    \/ WriteOutput

----------------------------------------------------------------------------
(* process_column_filter.py *)

NoError == [ty |-> "none"]

\* col.strip()
strip(s) == IF s = " b" THEN "b" ELSE s

\* the names between the commas of one --columns token
Pieces == {"a", " b", "c", ""}

\* args.columns: at least one token (nargs="+"), each token the sequence of
\* the names between its commas (arg.split(","))
RECURSIVE TokenLists(_)
TokenLists(n) ==
    IF n = 0 THEN {<<>>}
    ELSE UNION {{<<tok>> \o rest : rest \in TokenLists(n - Len(tok))} :
                  tok \in UNION {[1..k -> Pieces] : k \in 1..n}}
           \cup {<<>>}

ColumnArgs == {c \in TokenLists(MaxWanted) : c # <<>>}

\* [col.strip() for col in arg.split(",") if col.strip()]
RECURSIVE StripToken(_)
StripToken(tok) ==
    IF tok = <<>> THEN <<>>
    ELSE IF strip(Head(tok)) # "" THEN <<strip(Head(tok))>> \o StripToken(Tail(tok))
    ELSE StripToken(Tail(tok))

\* the de-duplication loop of normalize_columns, lines 65-70
RECURSIVE Unique(_, _)
Unique(s, seen) ==
    IF s = <<>> THEN <<>>
    ELSE IF Head(s) \notin seen
         THEN <<Head(s)>> \o Unique(Tail(s), seen \cup {Head(s)})
    ELSE Unique(Tail(s), seen)

normalize_columns(column_args) ==
    Unique(Flatten([i \in 1..Len(column_args) |-> StripToken(column_args[i])]), {})

Elems(s) == {s[i] : i \in 1..Len(s)}

\* The input CSV files: absent, empty, or a header line and data rows.  A data
\* row may have fewer or more fields than the header.
CsvHeaders == {<<"a", "b">>, <<"b", "c", "a">>}
CsvRowPool == {<<"1", "2">>, <<"3">>, <<"4", "5", "6", "7">>}

InFiles ==
    {NoFile, [state |-> "closed", lines |-> <<>>]}
      \cup {[state |-> "closed", lines |-> <<h>> \o rows] :
              h \in CsvHeaders, rows \in SeqUpTo(CsvRowPool, MaxCsvRows)}

\* csv.DictReader: a row as a dict from the field names; a field the row lacks
\* is None (restval), the fields beyond the header are dropped here since no
\* column name selects them (they sit under the key None)
DictReaderRow(fieldnames, row) ==
    [f \in Elems(fieldnames) |->
        LET j == CHOOSE i \in 1..Len(fieldnames) :
                   /\ fieldnames[i] = f
                   /\ \A k \in (i + 1)..Len(fieldnames) : fieldnames[k] # f
        IN IF j <= Len(row) THEN PyStr(row[j]) ELSE None]

\* filter_csv, line 88
MissingColumns(columns_to_keep, existing_cols) ==
    LET Absent(col) == col \notin Elems(existing_cols)
    IN SelectSeq(columns_to_keep, Absent)

\* WorkingColumns in the order of the input's header instead of the caller's
WorkingColumnsFileOrder(columns_to_keep, existing_cols) ==
    LET Wanted(c) == c \in Elems(columns_to_keep)
    IN SelectSeq(existing_cols, Wanted)

\* filter_csv, line 97
WorkingColumns(columns_to_keep, existing_cols) ==
    LET Present(c) == c \in Elems(existing_cols)
    IN SelectSeq(columns_to_keep, Present)

\* filter_csv, lines 109-111: one output row
FilteredRow(row, cols) ==
    [j \in 1..Len(cols) |-> CsvField(DictGet(row, cols[j], PyStr("")))]

\* filter_csv(in_path, out_path, columns_to_keep, ignore_missing): the
\* exception raised or NoError, the output file, and the warning
filter_csv(inf, outf, columns_to_keep, ignore_missing) ==
    IF inf.state = "absent"
    THEN [exc |-> [ty |-> "raise", exc |-> "FileNotFoundError"],
          out |-> outf, warning |-> <<>>]
    ELSE
    LET existing_cols == IF inf.lines = <<>> THEN <<>> ELSE Head(inf.lines)
        data == IF inf.lines = <<>> THEN <<>> ELSE Tail(inf.lines)
        missing == MissingColumns(columns_to_keep, existing_cols)
        keep == IF missing # <<>> /\ ignore_missing
                THEN WorkingColumns(columns_to_keep, existing_cols)
                ELSE columns_to_keep
    IN IF missing # <<>> /\ ~ignore_missing
       THEN [exc |-> [ty |-> "raise", exc |-> "ValueError",
                      what |-> "SchemaMismatch", missing |-> missing],
             out |-> outf, warning |-> <<>>]
       ELSE IF keep = <<>>
       THEN [exc |-> [ty |-> "raise", exc |-> "ValueError",
                      what |-> "NoColumnsRemaining"],
             out |-> outf, warning |-> missing]
       ELSE [exc |-> NoError,
             out |-> [state |-> "closed",
                      header |-> keep,
                      rows |-> [i \in 1..Len(data) |->
                                  FilteredRow(DictReaderRow(existing_cols, data[i]),
                                              keep)]],
             warning |-> missing]

ExportIdle ==
    /\ pc = "idle"
    /\ args = EmptyDict
    /\ start_ts = None
    /\ end_ts = None
    /\ scan_kwargs = EmptyDict
    /\ last_key = None
    /\ items = <<>>
    /\ requests = <<>>
    /\ responses = <<>>
    /\ outfile = NoFile
    /\ stdout = <<>>
    /\ error = "none"

FilterIdle ==
    /\ fpc = "idle"
    /\ fargs = EmptyDict
    /\ columns = <<>>
    /\ infile = NoFile
    /\ foutfile = NoFile
    /\ ferror = NoError
    /\ warned = <<>>

FilterInit ==
    /\ fpc = "main"
    /\ fargs \in [columns : ColumnArgs, ignore_missing : BOOLEAN]
    /\ columns = <<>>
    /\ infile \in InFiles
    /\ foutfile = NoFile
    /\ ferror = NoError
    /\ warned = <<>>

\* process_column_filter.main, line 116
NormalizeColumns ==
    /\ fpc = "main"
    /\ columns' = normalize_columns(fargs.columns)
    /\ fpc' = "filter_csv"
    /\ UNCHANGED <<fargs, infile, foutfile, ferror, warned, exportVars>>

\* process_column_filter.main, lines 118-128: the call of filter_csv; any
\* exception is reported and the exit status is 1
FilterCsv ==
    /\ fpc = "filter_csv"
    /\ LET r == filter_csv(infile, foutfile, columns, fargs.ignore_missing)
       IN /\ foutfile' = r.out
          /\ ferror' = r.exc
          /\ warned' = r.warning
          /\ fpc' = IF r.exc = NoError THEN "done" ELSE "failed"
    /\ UNCHANGED <<fargs, columns, infile, exportVars>>

----------------------------------------------------------------------------
(* Specifications. *)

\* the export pipeline, from the command line to the output
Init == ExportInit /\ FilterIdle

Spec == Init /\ [][Next]_vars

\* the export pipeline from the point where scan_table has returned a RowSet:
\* the sort and the CSV output over every RowSet of at most MaxSortItems rows
SortInit ==
    /\ pc = "sort"
    /\ args \in [start_date : {None}, end_date : {None},
                 order : {"asc", "desc"}, stdout : BOOLEAN]
    /\ start_ts = None
    /\ end_ts = None
    /\ scan_kwargs = FilterKwargs(date_attr, None, None)
    /\ last_key = None
    /\ items \in SeqUpTo(RowPool, MaxSortItems)
    /\ requests = <<scan_kwargs>>
    /\ responses = <<("Items" :> items)>>
    /\ outfile = NoFile
    /\ stdout = <<>>
    /\ error = "none"
    /\ FilterIdle

SortNext ==
    \/ SortItems
    \/ WriteOutput

SortSpec == SortInit /\ [][SortNext]_vars

\* the column filter
FilterSpecInit == ExportIdle /\ FilterInit

FilterNext ==
    \/ NormalizeColumns
    \/ FilterCsv

FilterSpec == FilterSpecInit /\ [][FilterNext]_vars

----------------------------------------------------------------------------
(* Claims about scan_table, checked under Spec. *)

\* the rows of each page response, in page order
PageRows == [n \in 1..Len(responses) |-> DictGet(responses[n], "Items", <<>>)]

\* the sum of the lengths of the sequences of ss
RECURSIVE SumLen(_)
SumLen(ss) == IF ss = <<>> THEN 0 ELSE Len(Head(ss)) + SumLen(Tail(ss))

HasToken(resp) == "LastEvaluatedKey" \in DOMAIN resp

\* C1: while scan_table runs and when it returns, the accumulated rows are
\* exactly the concatenation of the rows of the pages received so far, in page
\* order, so their number is the sum of the per-page row counts: no row is
\* dropped, none is duplicated, whatever the number of pages and wherever the
\* empty pages are.
C1_PaginationComplete ==
    pc \in {"request", "await", "sort"} =>
        /\ items = Flatten(PageRows)
        /\ Len(items) = SumLen(PageRows)

\* scan_table has returned after three pages, the middle one empty
C1_Witness ==
    /\ pc = "sort"
    /\ Len(responses) = 3
    /\ PageRows[1] # <<>>
    /\ PageRows[2] = <<>>
    /\ PageRows[3] # <<>>
    /\ ~HasToken(responses[3])

\* "given" for a bound: main passes an int when the option is on the command
\* line and None when it is not
Given(ts) == ts # None

\* C2: every page request carries between(rangeStart, rangeEnd) when both
\* bounds are given, >= rangeStart when only rangeStart is given, <= rangeEnd
\* when only rangeEnd is given, and no predicate when neither is given, for
\* every non-negative value of the bounds.
C2_PredicateSelection ==
    \A n \in 1..Len(requests) :
        LET r == requests[n]
        IN /\ (Given(start_ts) /\ Given(end_ts)) =>
                 /\ "FilterExpression" \in DOMAIN r
                 /\ r["FilterExpression"] =
                      [op |-> "between", attr |-> date_attr,
                       lo |-> start_ts, hi |-> end_ts]
           /\ (Given(start_ts) /\ ~Given(end_ts)) =>
                 /\ "FilterExpression" \in DOMAIN r
                 /\ r["FilterExpression"] =
                      [op |-> "gte", attr |-> date_attr, lo |-> start_ts]
           /\ (~Given(start_ts) /\ Given(end_ts)) =>
                 /\ "FilterExpression" \in DOMAIN r
                 /\ r["FilterExpression"] =
                      [op |-> "lte", attr |-> date_attr, hi |-> end_ts]
           /\ (~Given(start_ts) /\ ~Given(end_ts)) =>
                 "FilterExpression" \notin DOMAIN r

\* C10: the first page request carries no continuation token; request n+1 is
\* issued only after response n and carries the token of response n; no
\* request follows the first response without a token, and scan_table returns
\* at that response.
C10_PageProtocol ==
    /\ Len(requests) \in {Len(responses), Len(responses) + 1}
    /\ pc = "request" => Len(requests) = Len(responses)
    /\ requests # <<>> => "ExclusiveStartKey" \notin DOMAIN requests[1]
    /\ \A n \in 1..(Len(requests) - 1) :
         /\ HasToken(responses[n])
         /\ "ExclusiveStartKey" \in DOMAIN requests[n + 1]
         /\ requests[n + 1]["ExclusiveStartKey"] = responses[n]["LastEvaluatedKey"]
    /\ \A n \in 1..Len(responses) :
         ~HasToken(responses[n]) =>
            /\ Len(requests) = n
            /\ Len(responses) = n
            /\ pc \in {"sort", "write", "done", "failed"}
    /\ (responses # <<>> /\ pc \in {"request", "await"}) =>
          HasToken(responses[Len(responses)])

\* scan_table has returned after three requests
C10_Witness ==
    /\ pc = "sort"
    /\ Len(requests) = 3
    /\ Len(responses) = 3

\* C7: a run that ends in an error has not created or written the output
\* file; the output file exists only after a run that completed, and then it
\* holds the header and every row.
C7_NoPartialOutput ==
    /\ pc = "failed" => outfile = NoFile
    /\ outfile # NoFile =>
         /\ pc = "done"
         /\ Len(outfile.rows) = Len(items)
    /\ fpc = "failed" => foutfile = NoFile

----------------------------------------------------------------------------
(* Claims about the sort and the CSV output, checked under SortSpec. *)

\* the RowSet scan_table returned, before the sort
Fetched == Flatten(PageRows)

Sorted == pc \in {"write", "done", "failed"}

Keys(its) == [i \in 1..Len(its) |-> SortKeyOf(its[i])]

KeyEq(a, b) == a[1] = b[1] /\ a[2] = b[2]

ValueLe(a, b) ==
    CASE a[1] = 0 -> \/ a[2][1] < b[2][1]
                     \/ a[2][1] = b[2][1] /\ a[2][2] <= b[2][2]
      [] a[1] = 1 -> a[2] = b[2] \/ StrLt(a[2], b[2])
      [] OTHER -> TRUE

WithKey(its, k) ==
    LET Same(it) == KeyEq(SortKeyOf(it), k)
    IN SelectSeq(its, Same)

Written == pc \in {"done", "failed"}

\* C6: to_scalar returns a value and never raises: a List is rendered to one
\* JSON string whatever it holds, an integral Number becomes an int and a
\* non-integral Number a float.
C6_CoercionTotal ==
    Written =>
        /\ error # "TypeError"
        /\ \A i \in 1..Len(items) : \A h \in DOMAIN items[i] :
             LET v == items[i][h]
                 r == to_scalar(v)
             IN /\ ~IsRaise(r)
                /\ v.ty \in {"list", "dict"} => r.ty = "str"
                /\ (v.ty = "Decimal" /\ v.tenths = 0) => r = PyInt(v.units)
                /\ (v.ty = "Decimal" /\ v.tenths # 0) =>
                      r = PyFloat(v.units, v.tenths)

\* what the CSV sink holds after write_csv
Sink == IF args.stdout THEN stdout[1] ELSE outfile

\* C9: the header is the union of the attribute names of all rows, each once,
\* in lexicographic order, and there is one record per row, in RowSet order,
\* with one cell per header column, empty when the row lacks the attribute.
C9_HeaderAndCells ==
    Written =>
        LET hs == Sink.header
        IN /\ {hs[j] : j \in 1..Len(hs)}
                = UNION {DOMAIN items[i] : i \in 1..Len(items)}
           /\ \A j, k \in 1..Len(hs) : j < k => StrLt(hs[j], hs[k])
           /\ Len(Sink.rows) = Len(items)
           /\ \A i \in 1..Len(Sink.rows) :
                /\ Len(Sink.rows[i]) = Len(hs)
                /\ \A j \in 1..Len(hs) :
                     hs[j] \notin DOMAIN items[i] => Sink.rows[i][j] = PyStr("")

----------------------------------------------------------------------------
(* Claims about filter_csv, checked under FilterSpec. *)

\* the header line and the data rows of the input file
InHeader == IF infile.lines = <<>> THEN <<>> ELSE Head(infile.lines)
InRows == IF infile.lines = <<>> THEN <<>> ELSE Tail(infile.lines)

\* the wanted columns not among the input's columns / among them, in the
\* caller's order
WantedMissing ==
    [n \in 1..Len(columns) |-> columns[n] \notin Elems(InHeader)]

RECURSIVE Pick(_, _, _)
Pick(s, flags, want) ==
    IF s = <<>> THEN <<>>
    ELSE IF Head(flags) = want
         THEN <<Head(s)>> \o Pick(Tail(s), Tail(flags), want)
    ELSE Pick(Tail(s), Tail(flags), want)

\* the field of data row r under column name c: the text, or empty when the
\* row is too short
FieldOf(r, c) ==
    LET p == CHOOSE q \in 1..Len(InHeader) : InHeader[q] = c
    IN IF p <= Len(r) THEN PyStr(r[p]) ELSE PyStr("")

\* C8: with missing the wanted columns absent from the input, in caller order:
\* without ignoreMissing a non-empty missing fails with SchemaMismatch listing
\* exactly missing; otherwise the working list is the wanted columns without
\* the missing ones, in caller order, the run fails with NoColumnsRemaining
\* exactly when that list is empty, and on success the output header is that
\* list and there is one output row per input row holding those columns.
C8_ColumnProjection ==
    (fpc \in {"done", "failed"} /\ infile # NoFile) =>
        LET missing == Pick(columns, WantedMissing, TRUE)
            working == Pick(columns, WantedMissing, FALSE)
        IN IF missing # <<>> /\ ~fargs.ignore_missing
           THEN /\ fpc = "failed"
                /\ ferror = [ty |-> "raise", exc |-> "ValueError",
                             what |-> "SchemaMismatch", missing |-> missing]
                /\ foutfile = NoFile
           ELSE /\ (working = <<>>) <=>
                     (/\ fpc = "failed"
                      /\ ferror = [ty |-> "raise", exc |-> "ValueError",
                                   what |-> "NoColumnsRemaining"])
                /\ working = <<>> => foutfile = NoFile
                /\ working # <<>> =>
                     /\ fpc = "done"
                     /\ foutfile.header = working
                     /\ Len(foutfile.rows) = Len(InRows)
                     /\ \A i \in 1..Len(InRows) :
                          foutfile.rows[i] =
                            [j \in 1..Len(working) |-> FieldOf(InRows[i], working[j])]

\* wanted a, c against the columns a, b with ignoreMissing: only column a
C8_Witness ==
    /\ fpc = "done"
    /\ columns = <<"a", "c">>
    /\ InHeader = <<"a", "b">>
    /\ fargs.ignore_missing
    /\ foutfile.header = <<"a">>
    /\ Len(foutfile.rows) = 2
    /\ warned = <<"c">>

====
